---- MODULE Spec2Model ----
(***************************************************************************)
(* One run of app.py (Cumberland River downstream flow calculator): the    *)
(* widget values are read, the river geometry is fetched and resolved to   *)
(* one line, the line is resampled into mile markers measured from the     *)
(* selected dam, the marker nearest the user is located, and a flow and an *)
(* arrival time are computed per marker.                                   *)
(*                                                                         *)
(* Numbers.  Coordinates are integer grid points written [x, y] with       *)
(* x = longitude and y = latitude, and every way of a canned response is   *)
(* axis-aligned, so that lengths and projections are integers.  A chainage *)
(* start + (L - start) * (i / n) is kept as its numerator over the         *)
(* denominator n, and an interpolated point as its coordinates times n.    *)
(* The loss rate is an exact fraction <<num, den>> in lowest terms.  Times *)
(* are whole seconds after midnight of the day of `now`.  The velocity is  *)
(* in tenths of a mile per hour, river miles are in tenths of a mile.      *)
(***************************************************************************)
EXTENDS Integers, Sequences, FiniteSets, TLC

VARIABLES
    selected_dam_idx,   \* 1-based position of the selected dam in dams
    flow_cfs,           \* "Discharge (CFS)" widget
    max_mile_marker,    \* "Max mile marker" widget
    loss_percent,       \* "Loss per mile (%)" widget
    user_lat, user_lon, \* "Your Latitude" / "Your Longitude" widgets
    osm,                \* what the Overpass request will answer
    pc,                 \* position of the script
    warned,             \* st.warning was shown
    n_fetch,            \* number of requests.post calls made
    river_lines,        \* list of LineStrings built from the ways
    river_line,         \* the resolved line (<<>> before it is set)
    start_dist,         \* river_line.project(dam_point) (-1 before it is set)
    distances,          \* chainage numerators, denominator n_markers
    marker_points,      \* interpolated points, coordinates times n_markers
    marker_miles,       \* list(range(n_markers + 1))
    min_idx,            \* index of the nearest marker (-1 before it is set)
    cfm_at_user,        \* <<>> before it is set, <<value>> after
    idx,                \* position of the marker loop
    estimates,          \* the per-marker popups produced so far
    error               \* "none", or the exception that reached the handler

vars == << selected_dam_idx, flow_cfs, max_mile_marker, loss_percent, user_lat,
           user_lon, osm, pc, warned, n_fetch, river_lines, river_line,
           start_dist, distances, marker_points, marker_miles, min_idx,
           cfm_at_user, idx, estimates, error >>

inputs == << selected_dam_idx, flow_cfs, max_mile_marker, loss_percent,
             user_lat, user_lon, osm >>

(***************************************************************************)
(* Bounds of the model.                                                    *)
(***************************************************************************)
MaxDischarge == 2
GridMax == 4

(***************************************************************************)
(* Arithmetic helpers.                                                     *)
(***************************************************************************)
Abs(v) == IF v < 0 THEN -v ELSE v

Sgn(v) == IF v < 0 THEN -1 ELSE IF v > 0 THEN 1 ELSE 0

Min2(a, b) == IF a < b THEN a ELSE b

Max2(a, b) == IF a < b THEN b ELSE a

RECURSIVE GCD(_, _)
GCD(a, b) == IF b = 0 THEN Abs(a) ELSE GCD(b, a % Abs(b))

RECURSIVE IntPow(_, _)
IntPow(b, k) == IF k = 0 THEN 1 ELSE b * IntPow(b, k - 1)

\* int(): truncation toward zero of the fraction n / d, d > 0
IntTrunc(n, d) == IF n >= 0 THEN n \div d ELSE -((-n) \div d)

Range(s) == { s[i] : i \in DOMAIN s }

(***************************************************************************)
(* The dam catalog (cumberland_dams.json), sorted as the script sorts it.  *)
(***************************************************************************)
DamFile ==
    << [name |-> "Lower", river_mile |-> 25, lat |-> 4, lon |-> 4],
       [name |-> "Upper", river_mile |-> 90, lat |-> 1, lon |-> 2],
       [name |-> "Middle", river_mile |-> 40, lat |-> 1, lon |-> 1] >>

RECURSIVE SortDesc(_)
SortDesc(s) ==
    IF s = <<>> THEN <<>>
    ELSE LET top == CHOOSE i \in DOMAIN s :
                        /\ \A j \in DOMAIN s : s[j].river_mile <= s[i].river_mile
                        /\ \A j \in 1..(i - 1) : s[j].river_mile < s[i].river_mile
             rest == [k \in 1..(Len(s) - 1) |-> IF k < top THEN s[k] ELSE s[k + 1]]
         IN  <<s[top]>> \o SortDesc(rest)

dams == SortDesc(DamFile)

selected_dam == dams[selected_dam_idx]

\* in tenths of a mile
max_mile_allowed ==
    IF selected_dam_idx < Len(dams)
    THEN selected_dam.river_mile - dams[selected_dam_idx + 1].river_mile
    ELSE selected_dam.river_mile

\* int(max_mile_allowed)
MaxMileInt(d) ==
    LET mma == IF d < Len(dams) THEN dams[d].river_mile - dams[d + 1].river_mile
               ELSE dams[d].river_mile
    IN  mma \div 10

mile_markers ==
    IF max_mile_marker >= 0 THEN [i \in 1..(max_mile_marker + 1) |-> i - 1] ELSE <<>>

(***************************************************************************)
(* Widget domains.                                                         *)
(***************************************************************************)
LossPercents == {0, 25, 50, 100}

MileMarkerInputs(d) == 1..MaxMileInt(d)

(***************************************************************************)
(* Canned Overpass answers.  nodes maps a node id to <<lat, lon>>.         *)
(***************************************************************************)
Node(lat, lon) == <<lat, lon>>

RespHttpError == [ok |-> FALSE, nodes |-> <<>>, ways |-> <<>>]

RespEmpty == [ok |-> TRUE, nodes |-> <<>>, ways |-> <<>>]

\* a way with a single resolved node (node 9 is not in the answer)
RespUnresolved ==
    [ok |-> TRUE, nodes |-> <<Node(0, 0)>>, ways |-> << <<1, 9>> >>]

\* one way (0,0) -> (3,0) -> (3,4), length 7
RespSingle ==
    [ok |-> TRUE, nodes |-> <<Node(0, 0), Node(0, 3), Node(4, 3)>>,
     ways |-> << <<1, 2, 3>> >>]

\* two ways apart from each other: (0,2) -> (3,2), length 3, and
\* (0,0) -> (4,0) -> (4,3), length 7
RespDisjoint ==
    [ok |-> TRUE,
     nodes |-> <<Node(2, 0), Node(2, 3), Node(0, 0), Node(0, 4), Node(3, 4)>>,
     ways |-> << <<1, 2>>, <<3, 4, 5>> >>]

\* two ways meeting end to end at (3,0): (0,0) -> (3,0), length 3, and
\* (3,0) -> (3,4), length 4
RespTouching ==
    [ok |-> TRUE, nodes |-> <<Node(0, 0), Node(0, 3), Node(4, 3)>>,
     ways |-> << <<1, 2>>, <<2, 3>> >>]

Responses ==
    {RespHttpError, RespEmpty, RespUnresolved, RespSingle, RespDisjoint, RespTouching}

(***************************************************************************)
(* Geometry, as shapely computes it on axis-aligned lines.                 *)
(***************************************************************************)
Pt(x, y) == [x |-> x, y |-> y]

SegLen(a, b) == Abs(a.x - b.x) + Abs(a.y - b.y)

RECURSIVE CumLen(_, _)
\* arc length from the first point of line to its s-th point
CumLen(line, s) ==
    IF s <= 1 THEN 0 ELSE CumLen(line, s - 1) + SegLen(line[s - 1], line[s])

Length(line) == CumLen(line, Len(line))

Dist2(p, q) == (p.x - q.x) * (p.x - q.x) + (p.y - q.y) * (p.y - q.y)

Clamp(v, a, b) == Max2(Min2(a, b), Min2(v, Max2(a, b)))

NearestOnSeg(p, a, b) == Pt(Clamp(p.x, a.x, b.x), Clamp(p.y, a.y, b.y))

\* line.project(p): the chainage of the point of line nearest p, the first
\* one along the line when several are equally near
Project(line, p) ==
    LET segs == 1..(Len(line) - 1)
        near(s) == NearestOnSeg(p, line[s], line[s + 1])
        d2(s) == Dist2(p, near(s))
        s0 == CHOOSE s \in segs :
                  /\ \A t \in segs : d2(s) <= d2(t)
                  /\ \A t \in segs : t < s => d2(s) < d2(t)
    IN  CumLen(line, s0) + SegLen(line[s0], near(s0))

\* Interpolate with a chainage at or past the end wrapped to the first point
InterpolateWrap(line, num, den) ==
    LET L == Length(line)
    IN  IF num >= L * den \/ num <= 0 THEN Pt(line[1].x * den, line[1].y * den)
        ELSE LET s == CHOOSE t \in 1..(Len(line) - 1) :
                          /\ num <= CumLen(line, t + 1) * den
                          /\ \A u \in 1..(t - 1) : num > CumLen(line, u + 1) * den
                 a == line[s]
                 b == line[s + 1]
                 off == num - CumLen(line, s) * den
             IN  Pt(a.x * den + Sgn(b.x - a.x) * off, a.y * den + Sgn(b.y - a.y) * off)

\* line.interpolate(num / den), as the point's coordinates times den; a
\* chainage past the end gives the last point
Interpolate(line, num, den) ==
    LET L == Length(line)
        last == line[Len(line)]
    IN  IF num >= L * den THEN Pt(last.x * den, last.y * den)
        ELSE IF num <= 0 THEN Pt(line[1].x * den, line[1].y * den)
        ELSE LET s == CHOOSE t \in 1..(Len(line) - 1) :
                          /\ num <= CumLen(line, t + 1) * den
                          /\ \A u \in 1..(t - 1) : num > CumLen(line, u + 1) * den
                 a == line[s]
                 b == line[s + 1]
                 off == num - CumLen(line, s) * den
             IN  Pt(a.x * den + Sgn(b.x - a.x) * off, a.y * den + Sgn(b.y - a.y) * off)

\* a.union(l) on linework whose pieces only meet at end points: the result
\* holds the pieces themselves (a MultiLineString once there are two), an
\* identical piece only once; union does not join pieces end to end
Union(geoms, l) == IF l \in Range(geoms) THEN geoms ELSE Append(geoms, l)

RECURSIVE UnionAll(_, _)
\* river_line = river_lines[0]; for l in river_lines[1:]: river_line.union(l)
UnionAll(geoms, rest) ==
    IF rest = <<>> THEN geoms ELSE UnionAll(Union(geoms, Head(rest)), Tail(rest))

\* the geoms max(river_line.geoms, key=lambda g: g.length) may return
LongestGeoms(geoms) ==
    { g \in Range(geoms) : \A h \in Range(geoms) : Length(h) <= Length(g) }

(***************************************************************************)
(* Reading the Overpass answer.                                            *)
(***************************************************************************)
RECURSIVE Resolved(_, _)
\* coords = [nodes[nid] for nid in el['nodes'] if nid in nodes]
Resolved(nodes, way) ==
    IF way = <<>> THEN <<>>
    ELSE IF Head(way) \in DOMAIN nodes
         THEN <<nodes[Head(way)]>> \o Resolved(nodes, Tail(way))
         ELSE Resolved(nodes, Tail(way))

\* LineString([(lon, lat) for lat, lon in coords])
LineString(coords) == [i \in 1..Len(coords) |-> Pt(coords[i][2], coords[i][1])]

RECURSIVE RiverLines(_, _)
RiverLines(nodes, ways) ==
    IF ways = <<>> THEN <<>>
    ELSE LET coords == Resolved(nodes, Head(ways))
         IN  (IF Len(coords) > 1 THEN <<LineString(coords)>> ELSE <<>>)
             \o RiverLines(nodes, Tail(ways))

(***************************************************************************)
(* The flow and arrival models.                                            *)
(***************************************************************************)
river_velocity_tenths == 25

\* 13:50:43, in seconds after midnight
now == 49843

\* loss_rate with the percentage clamped to 0..100
loss_rate_clamped ==
    LET p == Max2(0, Min2(100, loss_percent))
        g == GCD(p, 100)
    IN  <<p \div g, 100 \div g>>

\* loss_rate = loss_percent / 100.0, in lowest terms
loss_rate ==
    LET g == GCD(loss_percent, 100) IN <<loss_percent \div g, 100 \div g>>

flow_cfm_initial == flow_cfs * 60

\* cfm_at_mile with the 1-based position of the marker as the exponent
cfm_at_mile_next(mile) ==
    LET g == GCD(loss_percent, 100)
        num == (100 - loss_percent) \div g
        den == 100 \div g
    IN  IntTrunc(flow_cfs * 60 * IntPow(num, mile + 1), IntPow(den, mile + 1))

\* int(flow_cfm_initial * ((1 - loss_rate) ** mile)); the losses of the model
\* are multiples of 25 %, whose powers a double holds exactly
cfm_at_mile(mile) ==
    LET num == loss_rate[2] - loss_rate[1]
        den == loss_rate[2]
    IN  IntTrunc(flow_cfm_initial * IntPow(num, mile), IntPow(den, mile))

\* travel_time with mile / river_velocity_mph as an integer division
travel_time_whole_hours(mile) == ((mile * 10) \div river_velocity_tenths) * 3600

\* timedelta(hours=mile / river_velocity_mph), in seconds
travel_time(mile) == (mile * 36000) \div river_velocity_tenths

arrival_time(mile) == now + travel_time(mile)

\* the filter with mile < max_mile_allowed
MarkerShownStrict(mile) ==
    mile \in Range(mile_markers) /\ mile * 10 < max_mile_allowed

\* the filter of the marker loop
MarkerShown(mile) == mile \in Range(mile_markers) /\ mile * 10 <= max_mile_allowed

(***************************************************************************)
(* Sampling.                                                               *)
(***************************************************************************)
n_markers == max_mile_marker

\* Distances over range(n): the last marker is missing
DistancesShort(start, L, n) == [k \in 1..n |-> start * n + (L - start) * (k - 1)]

\* Distances with the remaining length taken as start_dist - L
DistancesBackward(start, L, n) ==
    [k \in 1..(n + 1) |-> start * n + (start - L) * (k - 1)]

\* distances = [start_dist + (L - start_dist) * (i / n) for i in range(n + 1)]
Distances(start, L, n) == [k \in 1..(n + 1) |-> start * n + (L - start) * (k - 1)]

MarkerPoints(line, ds, n) == [k \in 1..Len(ds) |-> Interpolate(line, ds[k], n)]

dam_point == Pt(selected_dam.lon, selected_dam.lat)

\* user_point, in the scale of the marker points
user_point == Pt(user_lon * n_markers, user_lat * n_markers)

\* ArgMin returning the last index of a least distance
ArgMinLast(ds) ==
    CHOOSE i \in 0..(Len(ds) - 1) :
        /\ \A j \in 0..(Len(ds) - 1) : ds[i + 1] <= ds[j + 1]
        /\ \A j \in (i + 1)..(Len(ds) - 1) : ds[i + 1] < ds[j + 1]

\* int(np.argmin(dists)): the first index of a least distance
ArgMin(ds) ==
    CHOOSE i \in 0..(Len(ds) - 1) :
        /\ \A j \in 0..(Len(ds) - 1) : ds[i + 1] <= ds[j + 1]
        /\ \A j \in 0..(i - 1) : ds[i + 1] < ds[j + 1]

Dists == [k \in 1..Len(marker_points) |-> Dist2(user_point, marker_points[k])]

(***************************************************************************)
(* The run.                                                                *)
(***************************************************************************)
Blank ==
    /\ pc = "start"
    /\ warned = FALSE
    /\ n_fetch = 0
    /\ river_lines = <<>>
    /\ river_line = <<>>
    /\ start_dist = -1
    /\ distances = <<>>
    /\ marker_points = <<>>
    /\ marker_miles = <<>>
    /\ min_idx = -1
    /\ cfm_at_user = <<>>
    /\ idx = 0
    /\ estimates = <<>>
    /\ error = "none"

\* the widgets hold values within their bounds
Init ==
    /\ selected_dam_idx \in 1..Len(dams)
    /\ flow_cfs \in 0..MaxDischarge
    /\ max_mile_marker \in MileMarkerInputs(selected_dam_idx)
    /\ loss_percent \in LossPercents
    /\ user_lat \in 0..GridMax
    /\ user_lon \in 0..GridMax
    /\ osm \in Responses
    /\ Blank

\* if flow_cfs == 0: st.warning(...);  if flow_cfs and flow_cfs > 0: ...
CheckDischarge ==
    /\ pc = "start"
    /\ warned' = (flow_cfs = 0)
    /\ pc' = IF flow_cfs # 0 /\ flow_cfs > 0 THEN "fetch" ELSE "done"
    /\ UNCHANGED << inputs, n_fetch, river_lines, river_line, start_dist,
                    distances, marker_points, marker_miles, min_idx,
                    cfm_at_user, idx, estimates, error >>

\* requests.post, raise_for_status, and the ways turned into LineStrings
Fetch ==
    /\ pc = "fetch"
    /\ n_fetch' = n_fetch + 1
    /\ IF osm.ok
       THEN /\ river_lines' = RiverLines(osm.nodes, osm.ways)
            /\ pc' = "merge"
            /\ error' = error
       ELSE /\ river_lines' = river_lines
            /\ pc' = "except"
            /\ error' = "HTTPError"
    /\ UNCHANGED << inputs, warned, river_line, start_dist, distances,
                    marker_points, marker_miles, min_idx, cfm_at_user, idx,
                    estimates >>

\* the union of the lines, and the longest geom of a MultiLineString
Merge ==
    /\ pc = "merge"
    /\ IF Len(river_lines) = 0
       THEN /\ river_line' = river_line
            /\ pc' = "except"
            /\ error' = "No river lines found in OSM response."
       ELSE /\ LET u == UnionAll(<<river_lines[1]>>, Tail(river_lines))
               IN  IF Len(u) > 1
                   THEN \E g \in LongestGeoms(u) : river_line' = g
                   ELSE river_line' = u[1]
            /\ pc' = "sample"
            /\ error' = error
    /\ UNCHANGED << inputs, warned, n_fetch, river_lines, start_dist, distances,
                    marker_points, marker_miles, min_idx, cfm_at_user, idx,
                    estimates >>

\* the projection of the dam and the interpolation of the markers
Sample ==
    /\ pc = "sample"
    /\ start_dist' = Project(river_line, dam_point)
    /\ IF mile_markers = <<>>
       THEN \* max() of an empty list
            /\ pc' = "except"
            /\ error' = "ValueError"
            /\ UNCHANGED << distances, marker_points, marker_miles >>
       ELSE IF n_markers = 0
       THEN \* i / n_markers
            /\ pc' = "except"
            /\ error' = "ZeroDivisionError"
            /\ UNCHANGED << distances, marker_points, marker_miles >>
       ELSE /\ distances' = Distances(start_dist', Length(river_line), n_markers)
            /\ marker_points' = MarkerPoints(river_line, distances', n_markers)
            /\ marker_miles' = [k \in 1..(n_markers + 1) |-> k - 1]
            /\ pc' = "nearest"
            /\ error' = error
    /\ UNCHANGED << inputs, warned, n_fetch, river_lines, river_line, min_idx,
                    cfm_at_user, idx, estimates >>

\* the handler sending the script back to the request
ExceptRetry ==
    /\ pc = "except"
    /\ pc' = "fetch"
    /\ UNCHANGED << inputs, warned, n_fetch, river_lines, river_line, start_dist,
                    distances, marker_points, marker_miles, min_idx,
                    cfm_at_user, idx, estimates, error >>

\* except Exception as e: st.error(...); st.stop()
Except ==
    /\ pc = "except"
    /\ pc' = "stopped"
    /\ UNCHANGED << inputs, warned, n_fetch, river_lines, river_line, start_dist,
                    distances, marker_points, marker_miles, min_idx,
                    cfm_at_user, idx, estimates, error >>

\* the marker nearest the user and the flow there
Nearest ==
    /\ pc = "nearest"
    /\ min_idx' = ArgMin(Dists)
    /\ cfm_at_user' = << cfm_at_mile(marker_miles[min_idx' + 1]) >>
    /\ idx' = 0
    /\ pc' = "loop"
    /\ UNCHANGED << inputs, warned, n_fetch, river_lines, river_line, start_dist,
                    distances, marker_points, marker_miles, estimates, error >>

\* one pass of the marker loop
MarkerStep ==
    /\ pc = "loop"
    /\ idx < Len(marker_miles)
    /\ LET mile == marker_miles[idx + 1]
           p == marker_points[idx + 1]
       IN  estimates' =
               IF MarkerShown(mile)
               THEN Append(estimates,
                           [mile |-> mile, lat |-> p.y, lon |-> p.x,
                            arrival |-> arrival_time(mile),
                            cfm |-> cfm_at_mile(mile)])
               ELSE estimates
    /\ idx' = idx + 1
    /\ UNCHANGED << inputs, pc, warned, n_fetch, river_lines, river_line,
                    start_dist, distances, marker_points, marker_miles, min_idx,
                    cfm_at_user, error >>

\* after the loop: the flow at the user's marker, the dam marker, the map
Finish ==
    /\ pc = "loop"
    /\ idx = Len(marker_miles)
    /\ cfm_at_user' = << cfm_at_mile(marker_miles[min_idx + 1]) >>
    /\ pc' = "done"
    /\ UNCHANGED << inputs, warned, n_fetch, river_lines, river_line, start_dist,
                    distances, marker_points, marker_miles, min_idx, idx,
                    estimates, error >>

Next ==
    \/ CheckDischarge
    \/ Fetch
    \/ Merge
    \/ Sample
    \/ Except
    \/ Nearest
    \/ MarkerStep
    \/ Finish

Spec == Init /\ [][Next]_vars

(***************************************************************************)
(* The same run started from values the widgets do not let through: a      *)
(* marker count of 0 or -1 and a loss of 150 %.  The statements about the  *)
(* sampler for every marker count >= 0 and about out-of-domain rates are   *)
(* stated over this specification, all others over Spec.                   *)
(***************************************************************************)
ContractLossPercents == LossPercents \cup {150}

ContractMileMarkers(d) == (-1)..MaxMileInt(d)

InitContract ==
    /\ selected_dam_idx \in 1..Len(dams)
    /\ flow_cfs \in 0..MaxDischarge
    /\ max_mile_marker \in ContractMileMarkers(selected_dam_idx)
    /\ loss_percent \in ContractLossPercents
    /\ user_lat \in 0..GridMax
    /\ user_lon \in 0..GridMax
    /\ osm \in Responses
    /\ Blank

SpecContract == InitContract /\ [][Next]_vars

(***************************************************************************)
(* Vocabulary of the properties.                                           *)
(***************************************************************************)
\* the sampler has run on the resolved line
SamplerRan == start_dist # -1

\* the sampler returned its markers
Sampled == pc \in {"nearest", "loop"} \/ (pc = "done" /\ SamplerRan)

SamplerFailed == error \in {"ValueError", "ZeroDivisionError"}

Terminal == river_line[Len(river_line)]

\* the loss in quarters: every loss of the model is a multiple of 25 %
QuarterLoss == loss_percent \div 25

\* initial_discharge_cfs * 60 * (1 - loss) ^ i as the fraction ExactNum / ExactDen
ExactNum(i) == flow_cfs * 60 * IntPow(4 - QuarterLoss, i)

ExactDen(i) == IntPow(4, i)

\* c is n / d with its fractional part dropped (d > 0)
TruncOf(c, n, d) ==
    IF n >= 0 THEN c * d <= n /\ n < (c + 1) * d
    ELSE c * d >= n /\ n > (c - 1) * d

Estimated == { estimates[k] : k \in DOMAIN estimates }

\* the marker points all lie on the last point of the line
AllAtTerminal ==
    \A k \in DOMAIN marker_points :
        marker_points[k] = Pt(Terminal.x * n_markers, Terminal.y * n_markers)

\* the sampler's result for the marker count n_markers
SamplerResult ==
    /\ ~SamplerFailed
    /\ Sampled
    /\ Len(marker_points) = n_markers + 1
    /\ Len(marker_miles) = n_markers + 1
    /\ \A k \in DOMAIN marker_miles : marker_miles[k] = k - 1

C2_FlowExact ==
    \A e \in Estimated : e.cfm * ExactDen(e.mile) = ExactNum(e.mile)

\* C2, amended: the flow reported at marker i is
\* initial_discharge_cfs * 60 * (1 - loss)^i with its fractional part dropped,
\* the exponent being the integer marker index.
C2_FlowTruncated ==
    \A e \in Estimated : TruncOf(e.cfm, ExactNum(e.mile), ExactDen(e.mile))

C2_Witness ==
    \E e \in Estimated :
        /\ e.mile >= 2
        /\ e.cfm > 0
        /\ e.cfm * ExactDen(e.mile) < ExactNum(e.mile)

(***************************************************************************)
(* C3.                                                                     *)
(***************************************************************************)
OutOfDomain ==
    \/ river_velocity_tenths <= 0
    \/ loss_percent \notin 0..100
    \/ max_mile_marker < 0

ZeroUsable == osm.ok /\ RiverLines(osm.nodes, osm.ways) = <<>>

\* C4: when the answer holds no usable line, the run reports the error and
\* stops: no marker, no estimate and no observer estimate is ever produced,
\* and the request is made at most once.
C4_NoGeometryStops ==
    ZeroUsable =>
        /\ marker_points = <<>>
        /\ estimates = <<>>
        /\ cfm_at_user = <<>>
        /\ min_idx = -1
        /\ n_fetch <= 1
        /\ pc \in {"start", "fetch", "merge", "except", "stopped", "done"}
        /\ pc = "done" => flow_cfs = 0
        /\ pc \in {"except", "stopped"} =>
               error = "No river lines found in OSM response."

C4_Witness ==
    /\ ZeroUsable
    /\ osm.ways # <<>>
    /\ pc = "stopped"
    /\ n_fetch = 1

(***************************************************************************)
(* C5.                                                                     *)
(***************************************************************************)
Touches(a, b) == Range(a) \cap Range(b) # {}

RECURSIVE Component(_)
\* the lines connected to the lines of S through shared points
Component(S) ==
    LET T == S \cup { j \in DOMAIN river_lines :
                        \E i \in S : Touches(river_lines[i], river_lines[j]) }
    IN  IF T = S THEN S ELSE Component(T)

RECURSIVE TotalLength(_)
TotalLength(S) ==
    IF S = {} THEN 0
    ELSE LET i == CHOOSE j \in S : TRUE
         IN  Length(river_lines[i]) + TotalLength(S \ {i})

\* C5: the reference line is the connected component of greatest total arc
\* length, lines that touch end to end counting as one component whose length
\* is the sum of their lengths, and it holds no point of another component.
C5_LongestComponent ==
    river_line # <<>> =>
        \E i \in DOMAIN river_lines :
            LET C == Component({i})
            IN  /\ \A j \in DOMAIN river_lines :
                       TotalLength(Component({j})) <= TotalLength(C)
                /\ Length(river_line) = TotalLength(C)
                /\ Range(river_line) \subseteq UNION { Range(river_lines[k]) : k \in C }

(***************************************************************************)
(* C6.                                                                     *)
(***************************************************************************)
\* C6: chainage(k) = start_chainage + k * (line.length - start_chainage) / N
\* is non-decreasing with the marker index, and the reported flow is
\* non-increasing with it.
C6_Monotone ==
    /\ Sampled =>
           /\ Len(distances) = n_markers + 1
           /\ \A k \in DOMAIN distances :
                  distances[k] =
                      start_dist * n_markers + (k - 1) * (Length(river_line) - start_dist)
           /\ \A i, j \in DOMAIN distances : i < j => distances[i] <= distances[j]
    /\ \A e1, e2 \in Estimated : e1.mile < e2.mile => e1.cfm >= e2.cfm

C6_Witness ==
    /\ pc = "done"
    /\ \E i, j \in DOMAIN distances : i < j /\ distances[i] < distances[j]
    /\ \E e1, e2 \in Estimated : e1.mile < e2.mile /\ e1.cfm > e2.cfm

(***************************************************************************)
(* C7.                                                                     *)
(***************************************************************************)
\* C7: the arrival time at marker i is reference_time + i / velocity_mph
\* hours: marker 0 arrives at reference_time and marker 5 two hours later.
C7_Arrival ==
    \A e \in Estimated :
        /\ (e.arrival - now) * river_velocity_tenths = e.mile * 36000
        /\ e.mile = 0 => e.arrival = now
        /\ e.mile = 5 => e.arrival = now + 7200

C7_Witness ==
    /\ pc = "done"
    /\ \E e \in Estimated : e.mile = 5 /\ e.arrival = now + 7200

(***************************************************************************)
(* C8.                                                                     *)
(***************************************************************************)
\* min_idx is the least index among the markers nearest the user, and the
\* user's flow is the flow reported for that index
LeastNearest ==
    /\ min_idx \in 0..(Len(marker_points) - 1)
    /\ \A j \in 0..(Len(marker_points) - 1) : Dists[min_idx + 1] <= Dists[j + 1]
    /\ \A j \in 0..(min_idx - 1) : Dists[min_idx + 1] < Dists[j + 1]
    /\ cfm_at_user # <<>>
    /\ TruncOf(cfm_at_user[1], ExactNum(min_idx), ExactDen(min_idx))

\* C8, as stated: nearest selects the least index among the markers at least
\* distance, and for an observer coincident with marker k it returns k.
C8_NearestCoincident ==
    min_idx # -1 =>
        /\ LeastNearest
        /\ \A k \in 0..(Len(marker_points) - 1) : Dists[k + 1] = 0 => min_idx = k

\* C8, amended: nearest selects the least index among the markers at least
\* distance, and for an observer coincident with marker k it returns the
\* least index of a marker at that position, k itself when no marker of a
\* lower index lies there.
C8_Nearest ==
    min_idx # -1 =>
        /\ LeastNearest
        /\ \A k \in 0..(Len(marker_points) - 1) :
               Dists[k + 1] = 0 =>
                   /\ min_idx <= k
                   /\ marker_points[min_idx + 1] = marker_points[k + 1]
                   /\ (\A j \in 0..(k - 1) : marker_points[j + 1] # marker_points[k + 1])
                          => min_idx = k

C8_Witness ==
    /\ pc = "done"
    /\ min_idx >= 2
    /\ Dists[min_idx + 1] = 0

C10_WarnOrAll ==
    /\ flow_cfs = 0 =>
           /\ n_fetch = 0
           /\ marker_points = <<>>
           /\ estimates = <<>>
           /\ cfm_at_user = <<>>
           /\ pc \in {"start", "done"}
           /\ pc = "done" => warned
    /\ flow_cfs > 0 => ~warned
    /\ pc = "loop" =>
           /\ Len(estimates) = idx
           /\ \A k \in DOMAIN estimates : estimates[k].mile = k - 1
    /\ (pc = "done" /\ flow_cfs > 0) =>
           /\ Len(estimates) = max_mile_marker + 1
           /\ \A k \in DOMAIN estimates : estimates[k].mile = k - 1

C10_Witness ==
    /\ pc = "done"
    /\ flow_cfs > 0
    /\ max_mile_marker * 10 = max_mile_allowed
    /\ Len(estimates) = max_mile_marker + 1

====
